---- MODULE Spec2Model ----
(***************************************************************************)
(* A model of pyem's runtime management: the quintuplet alias matcher, the *)
(* runtime registry (.venvs), the active-runtime marker (.venv) and the    *)
(* venv sub-commands built on them.                                        *)
(*                                                                         *)
(* Text is a sequence of one-character strings, so that str.split,         *)
(* str.lower, str.strip and string formatting are computed, character by   *)
(* character, the way the Python code computes them.  A path below the     *)
(* project root is the sequence of its components.                         *)
(***************************************************************************)
EXTENDS Integers, Sequences, FiniteSets, TLC

VARIABLES container, venvs, marker, last, tree, environ, codes, procs

vars == <<container, venvs, marker, last, tree, environ, codes, procs>>

\* What the runtime management operations never touch: the directories from
\* the working directory up to the filesystem root (tree), the environment
\* of the process (environ), the exit codes seen so far (codes) and the
\* invocations that run at the same time (procs).
outside == <<tree, environ, codes, procs>>

(***************************************************************************)
(* Bounds.                                                                 *)
(***************************************************************************)
\* The largest number of entries in the runtime container.
MaxEntries == 2

(***************************************************************************)
(* Program constants.                                                      *)
(***************************************************************************)
_VENV_CONTAINER_NAME == <<".", "v", "e", "n", "v", "s">>

\* errs.Error is an IntEnum numbered by enum.auto(), from 1.
interpreter_not_found == 1
project_not_found == 2
py_unavailable == 3
runtime_invalid == 4
runtime_multiple_matches == 5
runtime_no_active == 6
runtime_no_match == 7
virtualenv_unavailable == 8

\* errno values (Linux) carried by the OSError a filesystem call raises.
ENOENT == 2
EACCES == 13
ENOTDIR == 20
EISDIR == 21

(***************************************************************************)
(* Text.                                                                   *)
(***************************************************************************)
LowerOf ==
    ("A" :> "a") @@ ("B" :> "b") @@ ("C" :> "c") @@ ("D" :> "d") @@ ("E" :> "e") @@ ("F" :> "f") @@
    ("G" :> "g") @@ ("H" :> "h") @@ ("I" :> "i") @@ ("J" :> "j") @@ ("K" :> "k") @@ ("L" :> "l") @@
    ("M" :> "m") @@ ("N" :> "n") @@ ("O" :> "o") @@ ("P" :> "p") @@ ("Q" :> "q") @@ ("R" :> "r") @@
    ("S" :> "s") @@ ("T" :> "t") @@ ("U" :> "u") @@ ("V" :> "v") @@ ("W" :> "w") @@ ("X" :> "x") @@
    ("Y" :> "y") @@ ("Z" :> "z")

\* str.lower() on one character.
LowerChar(c) == IF c \in DOMAIN LowerOf THEN LowerOf[c] ELSE c

\* str.lower()
lower(s) == [i \in 1..Len(s) |-> LowerChar(s[i])]

\* The characters str.strip() removes.
Whitespace == {" ", "\t", "\n", "\r", "\f"}

RECURSIVE lstrip(_)
lstrip(s) ==
    IF s # <<>> /\ Head(s) \in Whitespace THEN lstrip(Tail(s)) ELSE s

RECURSIVE rstrip(_)
rstrip(s) ==
    IF s # <<>> /\ s[Len(s)] \in Whitespace
    THEN rstrip(SubSeq(s, 1, Len(s) - 1))
    ELSE s

\* str.strip()
strip(s) == rstrip(lstrip(s))

\* The index of the first occurrence of character c in s, 0 if there is none.
RECURSIVE find(_, _, _)
find(s, c, i) ==
    IF i > Len(s) THEN 0
    ELSE IF s[i] = c THEN i
    ELSE find(s, c, i + 1)

\* str.split(sep) for a one-character separator: "".split("-") is [""].
RECURSIVE split(_, _)
split(s, sep) ==
    LET i == find(s, sep, 1)
    IN  IF i = 0 THEN <<s>>
        ELSE <<SubSeq(s, 1, i - 1)>> \o split(SubSeq(s, i + 1, Len(s)), sep)

\* str.split(sep, 1): at most one split, at the first separator.
split1(s, sep) ==
    LET i == find(s, sep, 1)
    IN  IF i = 0 THEN <<s>>
        ELSE <<SubSeq(s, 1, i - 1), SubSeq(s, i + 1, Len(s))>>

\* sep.join(parts)
RECURSIVE join(_, _)
join(parts, sep) ==
    IF parts = <<>> THEN <<>>
    ELSE IF Len(parts) = 1 THEN parts[1]
    ELSE parts[1] \o <<sep>> \o join(Tail(parts), sep)

\* Text written through a file opened with newline=nl: every "\n" written
\* becomes nl.
RECURSIVE write_newlines(_, _)
write_newlines(s, nl) ==
    IF s = <<>> THEN <<>>
    ELSE (IF Head(s) = "\n" THEN nl ELSE <<Head(s)>>)
         \o write_newlines(Tail(s), nl)

\* Text read in universal-newlines mode (newline=None, what read_text uses):
\* "\r\n" and "\r" both become "\n".
RECURSIVE read_newlines(_)
read_newlines(s) ==
    IF s = <<>> THEN <<>>
    ELSE IF Head(s) = "\r"
         THEN IF Len(s) > 1 /\ s[2] = "\n"
              THEN <<"\n">> \o read_newlines(SubSeq(s, 3, Len(s)))
              ELSE <<"\n">> \o read_newlines(Tail(s))
         ELSE <<Head(s)>> \o read_newlines(Tail(s))

(***************************************************************************)
(* Runtimes.                                                               *)
(***************************************************************************)
\* Runtime(root): a dataclass, equal when the roots are equal.  The root is
\* the path below the project root, as its components.
Runtime(root) == [root |-> root]

\* Optional[Runtime]'s None.
None == [root |-> <<>>]

\* _VirtualEnvironment.name: the last component of the root.
name(runtime) == runtime.root[Len(runtime.root)]

\* Path.joinpath of the container and text: an absolute operand replaces the
\* path, empty and "." components are dropped.
joinpath(base, text) ==
    LET comps == split(text, "/")
        kept == SelectSeq(comps, LAMBDA c : c # <<>> /\ c # <<".">>)
    IN  IF text # <<>> /\ text[1] = "/"
        THEN <<<<"/">>>> \o kept
        ELSE base \o kept

_runtime_container == <<_VENV_CONTAINER_NAME>>

(***************************************************************************)
(* _QuintapletMatcher.                                                     *)
(***************************************************************************)
\* _QuintapletMatcher.__init__(parts, hash_="")
_QuintapletMatcher(parts, hash_) ==
    [_parts |-> [i \in 1..Len(parts) |-> lower(parts[i])],
     _hash |-> lower(hash_)]

_from_5(v) == _QuintapletMatcher(SubSeq(v, 1, 4), v[5])

_from_4(v) == _QuintapletMatcher(v, <<>>)

\* A slip in _from_3: the third part taken as the system, not the platform.
_from_3_sys(v) == _QuintapletMatcher(v \o <<<<>>>>, <<>>)

_from_3(v) == _QuintapletMatcher(SubSeq(v, 1, 2) \o <<<<>>>> \o SubSeq(v, 3, 3), <<>>)

_from_2(v) == _QuintapletMatcher(v \o <<<<>>, <<>>>>, <<>>)

\* A slip in _from_1: the single part taken as the implementation.
_from_1_impl(v) == _QuintapletMatcher(v \o <<<<>>, <<>>, <<>>>>, <<>>)

_from_1(v) == _QuintapletMatcher(<<<<>>>> \o v \o <<<<>>, <<>>>>, <<>>)

\* _looks_like_path(v): v contains a path separator.
_looks_like_path(v) == find(v, "/", 1) # 0

\* The alias from_alias splits: an alias that looks like a path and names an
\* existing file is replaced by that interpreter's quintuplet (empty when
\* the query fails).  isfile and quintuplet are what the filesystem and the
\* interpreter answer.
resolved_alias(alias, isfile, quintuplet) ==
    IF _looks_like_path(alias) /\ isfile THEN quintuplet ELSE alias

\* _QuintapletMatcher.from_alias: ok is FALSE where the code raises ValueError.
from_alias(alias, isfile, quintuplet) ==
    LET parts == split(resolved_alias(alias, isfile, quintuplet), "-")
        n == Len(parts)
    IN  IF n = 5 THEN [ok |-> TRUE, matcher |-> _from_5(parts)]
        ELSE IF n = 4 THEN [ok |-> TRUE, matcher |-> _from_4(parts)]
        ELSE IF n = 3 THEN [ok |-> TRUE, matcher |-> _from_3(parts)]
        ELSE IF n = 2 THEN [ok |-> TRUE, matcher |-> _from_2(parts)]
        ELSE IF n = 1 THEN [ok |-> TRUE, matcher |-> _from_1(parts)]
        ELSE [ok |-> FALSE, matcher |-> _QuintapletMatcher(<<>>, <<>>)]

\* A slip in match: names of any number of parts are compared.
match_any_length(matcher, runtime) ==
    LET parts == split(name(runtime), "-")
        n == Len(parts)
        hash_ == parts[n]
        rest == SubSeq(parts, 1, n - 1)
    IN  IF matcher._hash # <<>> /\ matcher._hash # hash_ THEN FALSE
        ELSE \A i \in 1..Len(rest) :
               (i <= Len(matcher._parts)
                /\ rest[i] # <<>> /\ matcher._parts[i] # <<>>)
               => rest[i] = matcher._parts[i]

\* _QuintapletMatcher.match(runtime).  zip() pairs the parts up to the
\* shorter of the two lists.
match(matcher, runtime) ==
    LET parts == split(name(runtime), "-")
        n == Len(parts)
    IN  IF n # 5 THEN FALSE
        ELSE LET hash_ == parts[n]
                 rest == SubSeq(parts, 1, n - 1)
             IN  IF matcher._hash # <<>> /\ matcher._hash # hash_ THEN FALSE
                 ELSE \A i \in 1..Len(rest) :
                        (i <= Len(matcher._parts)
                         /\ rest[i] # <<>> /\ matcher._parts[i] # <<>>)
                        => rest[i] = matcher._parts[i]

(***************************************************************************)
(* The project's files.                                                    *)
(*   container  "dir" or "absent": <root>/.venvs                           *)
(*   venvs      the entries of the container in directory order, each a    *)
(*              name and a kind: "dir", "file", or "symlink" (to a         *)
(*              directory outside the container)                           *)
(*   marker     <root>/.venv: kind "absent", "file", "dir" or "symlink";   *)
(*              content is the text of the file (of the link's target when *)
(*              tkind is "file"); tkind is what a link resolves to:        *)
(*              "file", "dir" or "dangling"; tpath is the resolved path of *)
(*              a link to a directory                                      *)
(*   last       the last operation: its name, arguments and outcome, and   *)
(*              the marker as it was before the operation                  *)
(*   tree       the directories from the working directory (tree[1]) up to *)
(*              the filesystem root, each with what its .venvs and         *)
(*              pyproject.toml entries are: "absent", "dir" or "file"      *)
(*   environ    os.environ: a function from variable names to values       *)
(*   codes      the exit code seen for each diagnostic that dispatch and   *)
(*              run have logged so far                                     *)
(*   procs      the invocations that run at the same time on the project:  *)
(*              where each is in its operation, the runtime it activates,  *)
(*              the marker it found, and what it returned                  *)
(***************************************************************************)
Name39 ==
    <<"c", "p", "y", "t", "h", "o", "n", "-", "3", ".", "9", "-", "l", "i", "n", "u", "x", "-", "x", "8", "6", "_", "6", "4", "-", "a", "a", "a", "a", "a", "a", "a", "a">>

Name310 ==
    <<"c", "p", "y", "t", "h", "o", "n", "-", "3", ".", "1", "0", "-", "l", "i", "n", "u", "x", "-", "x", "8", "6", "_", "6", "4", "-", "b", "b", "b", "b", "b", "b", "b", "b">>

\* A directory whose name is not lower case.
NameUpper ==
    <<"P", "y", "P", "y", "-", "3", ".", "9", "-", "L", "i", "n", "u", "x", "-", "x", "8", "6", "_", "6", "4", "-", "C", "C", "C", "C", "C", "C", "C", "C">>

\* A directory whose name ends with a space.
NameSpace ==
    <<"p", "y", "p", "y", "-", "3", ".", "1", "0", "-", "l", "i", "n", "u", "x", "-", "x", "8", "6", "_", "6", "4", "-", "d", "d", "d", "d", "d", "d", "d", "d", " ">>

\* Directories whose names are not five parts.
NameFour ==
    <<"c", "p", "y", "t", "h", "o", "n", "-", "3", ".", "9", "-", "l", "i", "n", "u", "x", "-", "x", "8", "6", "_", "6", "4">>

NameOne ==
    <<"3", ".", "9">>

\* An entry that is a symbolic link to a directory.
NameLink ==
    <<"p", "y", "p", "y", "-", "3", ".", "9", "-", "l", "i", "n", "u", "x", "-", "x", "8", "6", "_", "6", "4", "-", "e", "e", "e", "e", "e", "e", "e", "e">>

\* An entry that is a regular file.
NameFile ==
    <<"c", "p", "y", "t", "h", "o", "n", "-", "3", ".", "9", "-", "l", "i", "n", "u", "x", "-", "x", "8", "6", "_", "6", "4", "-", "f", "f", "f", "f", "f", "f", "f", "f">>

Entry(n, k) == [name |-> n, kind |-> k]

EntryPool ==
    {Entry(Name39, "dir"), Entry(Name310, "dir"), Entry(NameUpper, "dir"),
     Entry(NameSpace, "dir"), Entry(NameFour, "dir"), Entry(NameOne, "dir"),
     Entry(NameLink, "symlink"), Entry(NameFile, "file")}

\* A directory outside the project.
OutsideDir == <<<<"/">>, <<"o", "p", "t">>, <<"e", "n", "v">>>>

MarkerAbsent == [kind |-> "absent", content |-> <<>>, tkind |-> "none", tpath |-> <<>>]

MarkerDir == [kind |-> "dir", content |-> <<>>, tkind |-> "none", tpath |-> <<>>]

MarkerFile(text) == [kind |-> "file", content |-> text, tkind |-> "none", tpath |-> <<>>]

MarkerLinkToFile(text) == [kind |-> "symlink", content |-> text, tkind |-> "file", tpath |-> <<>>]

MarkerLinkToDir(path) == [kind |-> "symlink", content |-> <<>>, tkind |-> "dir", tpath |-> path]

MarkerDangling == [kind |-> "symlink", content |-> <<>>, tkind |-> "dangling", tpath |-> <<>>]

\* The text activate_runtime formats: f"{_VENV_CONTAINER_NAME}/{runtime.name}"
marker_text(runtime) == _VENV_CONTAINER_NAME \o <<"/">> \o name(runtime)

\* Texts a marker file may hold before the program touches it.
ContentPool ==
    {_VENV_CONTAINER_NAME \o <<"/">> \o n : n \in {Name39, Name310, NameSpace, NameLink, NameFile}}
    \cup {<<>>,
          <<"v", "e", "n", "v">>,
          <<"v", "e", "n", "v", "/">> \o Name39,
          _VENV_CONTAINER_NAME \o <<"/">> \o Name39 \o <<"\n">>,
          _VENV_CONTAINER_NAME \o <<"/">> \o Name310 \o <<"\r", "\n">>}

MarkerPool ==
    {MarkerAbsent, MarkerDir, MarkerDangling}
    \cup {MarkerFile(t) : t \in ContentPool}
    \cup {MarkerLinkToFile(t) : t \in {<<>>, _VENV_CONTAINER_NAME \o <<"/">> \o Name39}}
    \cup {MarkerLinkToDir(p) : p \in {<<_VENV_CONTAINER_NAME, Name39>>,
                                      <<_VENV_CONTAINER_NAME, Name310>>,
                                      OutsideDir}}

\* Sequences of at most n entries of the pool, no name twice.
RECURSIVE Listings(_)
Listings(n) ==
    IF n = 0 THEN {<<>>}
    ELSE LET shorter == Listings(n - 1)
         IN  shorter \cup
             {Append(l, e) : l \in {s \in shorter : Len(s) = n - 1}, e \in EntryPool}

DistinctNames(l) == \A i, j \in 1..Len(l) : l[i].name = l[j].name => i = j

names(v) == {v[i].name : i \in 1..Len(v)}

entry(v, n) == CHOOSE e \in {v[i] : i \in 1..Len(v)} : e.name = n

\* Path.is_dir() of a container entry (follows links).
entry_is_dir(e) == e.kind \in {"dir", "symlink"}

\* ProjectRuntimeManagementMixin.iter_runtimes, as the list it yields.
iter_runtimes(c, v) ==
    IF c # "dir" THEN <<>>
    ELSE LET dirs == SelectSeq(v, entry_is_dir)
         IN  [i \in 1..Len(dirs) |-> Runtime(_runtime_container \o <<dirs[i].name>>)]

\* Path.exists() of a path below (or outside) the project root.
exists(path, c, v) ==
    IF path = OutsideDir THEN TRUE
    ELSE IF path = _runtime_container THEN c = "dir"
    ELSE IF Len(path) = 2 /\ path[1] = _VENV_CONTAINER_NAME
         THEN c = "dir" /\ (path[2] \in names(v) \/ path[2] = <<".", ".">>)
    ELSE FALSE

Range(s) == {s[i] : i \in 1..Len(s)}

\* The marker as the filesystem resolves it: a link to a directory of the
\* container dangles when the container has no such directory.
settle(m, c, v) ==
    IF /\ m.kind = "symlink" /\ m.tkind = "dir"
       /\ Len(m.tpath) = 2 /\ m.tpath[1] = _VENV_CONTAINER_NAME
       /\ Runtime(m.tpath) \notin Range(iter_runtimes(c, v))
    THEN MarkerDangling
    ELSE m

(***************************************************************************)
(* Outcomes: a return (of a runtime, of None, or of an exit code) or the   *)
(* exception raised, with the fields it carries.                           *)
(***************************************************************************)
Outcome(k, r, a, l, n) == [kind |-> k, runtime |-> r, alias |-> a, list |-> l, code |-> n]

Return(r) == Outcome("return", r, <<>>, <<>>, 0)

ReturnCode(n) == Outcome("return", None, <<>>, <<>>, n)

NoRuntimeMatch(alias, tried) == Outcome("NoRuntimeMatch", None, alias, tried, 0)

MultipleRuntimeMatches(alias, matches) == Outcome("MultipleRuntimeMatches", None, alias, matches, 0)

RuntimeActive(runtime) == Outcome("RuntimeActive", runtime, <<>>, <<>>, 0)

ValueError == Outcome("ValueError", None, <<>>, <<>>, 0)

OSError(errno) == Outcome("OSError", None, <<>>, <<>>, errno)

(***************************************************************************)
(* ProjectRuntimeManagementMixin.                                          *)
(***************************************************************************)
\* The runtimes of the listing that the matcher matches, in listing order.
matching(matcher, all) == SelectSeq(all, LAMBDA r : match(matcher, r))

\* A slip in find_runtime: the first match is returned when several match.
find_runtime_first(alias, isfile, quintuplet, c, v) ==
    LET m == from_alias(alias, isfile, quintuplet)
        all == iter_runtimes(c, v)
        matches == matching(m.matcher, all)
    IN  IF ~m.ok THEN NoRuntimeMatch(alias, all)
        ELSE IF matches = <<>> THEN NoRuntimeMatch(alias, all)
        ELSE Return(matches[1])

\* find_runtime(alias)
find_runtime(alias, isfile, quintuplet, c, v) ==
    LET m == from_alias(alias, isfile, quintuplet)
        all == iter_runtimes(c, v)
        matches == matching(m.matcher, all)
    IN  IF ~m.ok THEN NoRuntimeMatch(alias, all)
        ELSE IF matches = <<>> THEN NoRuntimeMatch(alias, all)
        ELSE IF Len(matches) > 1 THEN MultipleRuntimeMatches(alias, matches)
        ELSE Return(matches[1])

\* Path.is_file() of the marker (follows links).
marker_is_file(m) == m.kind = "file" \/ (m.kind = "symlink" /\ m.tkind = "file")

\* The text the with-block of activate_runtime leaves in the file.
written_text(runtime) == write_newlines(marker_text(runtime), <<"\n">>)

\* activate_runtime(runtime): the outcome and the marker afterwards.  denied
\* is the operating system refusing the write.
activate_runtime(m, runtime, denied) ==
    IF denied THEN [res |-> OSError(EACCES), marker |-> m]
    ELSE IF m.kind = "dir" \/ (m.kind = "symlink" /\ m.tkind = "dir")
         THEN [res |-> OSError(EISDIR), marker |-> m]
    ELSE IF m.kind = "symlink"
         THEN [res |-> Return(None), marker |-> MarkerLinkToFile(written_text(runtime))]
    ELSE [res |-> Return(None), marker |-> MarkerFile(written_text(runtime))]

\* A slip in deactivate_runtime: a refused removal is swallowed.
deactivate_runtime_swallow(m, denied) ==
    IF m.kind = "absent" THEN [res |-> OSError(ENOENT), marker |-> m]
    ELSE IF denied THEN [res |-> Return(None), marker |-> m]
    ELSE IF m.kind = "dir" THEN [res |-> OSError(EISDIR), marker |-> m]
    ELSE [res |-> Return(None), marker |-> MarkerAbsent]

\* deactivate_runtime(): Path.unlink() of the marker.
deactivate_runtime(m, denied) ==
    IF m.kind = "absent" THEN [res |-> OSError(ENOENT), marker |-> m]
    ELSE IF denied THEN [res |-> OSError(EACCES), marker |-> m]
    ELSE IF m.kind = "dir" THEN [res |-> OSError(EISDIR), marker |-> m]
    ELSE [res |-> Return(None), marker |-> MarkerAbsent]

\* get_active_runtime()
get_active_runtime(m, c, v) ==
    IF marker_is_file(m)
    THEN LET content == strip(read_newlines(m.content))
             fields == split1(content, "/")
         IN  IF Len(fields) # 2 THEN ValueError
             ELSE LET prefix == fields[1]
                      path == joinpath(_runtime_container, fields[2])
                  IN  IF prefix # _VENV_CONTAINER_NAME THEN Return(None)
                      ELSE IF ~exists(path, c, v) THEN Return(None)
                      ELSE Return(Runtime(path))
    ELSE IF m.kind = "symlink"
    THEN IF m.tkind # "dir" THEN Return(None)
         ELSE IF ~(Len(m.tpath) > 1 /\ m.tpath[1] = _VENV_CONTAINER_NAME)
              THEN Return(None)
         ELSE Return(Runtime(m.tpath))
    ELSE Return(None)

\* The listing without the entry of that name.
without(v, n) == SelectSeq(v, LAMBDA e : e.name # n)

\* A slip in the deletion: rmtree(ignore_errors=True), a refused deletion is
\* swallowed.
delete_root_ignore_errors(v, runtime, denied) ==
    LET n == name(runtime)
    IN  IF ~(Len(runtime.root) = 2 /\ n \in names(v))
        THEN [res |-> OSError(ENOENT), venvs |-> v, call |-> "rmtree"]
        ELSE IF entry(v, n).kind = "file"
             THEN [res |-> OSError(ENOTDIR), venvs |-> v, call |-> "rmtree"]
        ELSE IF denied THEN [res |-> Return(None), venvs |-> v, call |-> "rmtree"]
        ELSE [res |-> Return(None), venvs |-> without(v, n), call |-> "rmtree"]

\* shutil.rmtree(root) / root.unlink(): the outcome, the listing afterwards
\* and which of the two was called.
delete_root(v, runtime, denied) ==
    LET n == name(runtime)
    IN  IF ~(Len(runtime.root) = 2 /\ n \in names(v))
        THEN [res |-> OSError(ENOENT), venvs |-> v, call |-> "rmtree"]
        ELSE IF entry(v, n).kind = "symlink"
             THEN IF denied THEN [res |-> OSError(EACCES), venvs |-> v, call |-> "unlink"]
                  ELSE [res |-> Return(None), venvs |-> without(v, n), call |-> "unlink"]
        ELSE IF entry(v, n).kind = "file"
             THEN [res |-> OSError(ENOTDIR), venvs |-> v, call |-> "rmtree"]
        ELSE IF denied THEN [res |-> OSError(EACCES), venvs |-> v, call |-> "rmtree"]
        ELSE [res |-> Return(None), venvs |-> without(v, n), call |-> "rmtree"]

\* A slip in remove_runtime: the active runtime is not looked at.
remove_runtime_unguarded(m, c, v, runtime, denied) ==
    delete_root(v, runtime, denied)

\* remove_runtime(runtime)
remove_runtime(m, c, v, runtime, denied) ==
    LET active == get_active_runtime(m, c, v)
    IN  IF active.kind # "return" THEN [res |-> active, venvs |-> v, call |-> "none"]
        ELSE IF active.runtime = runtime
             THEN [res |-> RuntimeActive(runtime), venvs |-> v, call |-> "none"]
        ELSE delete_root(v, runtime, denied)

(***************************************************************************)
(* The venv sub-commands (venvs.py).  Each returns its exit code, or       *)
(* propagates the exception no handler of the command catches.             *)
(***************************************************************************)
\* venvs.remove(project, options), options.spec being spec.
remove(m, c, v, spec, isfile, quintuplet, denied_unlink, denied_delete) ==
    LET found == find_runtime(spec, isfile, quintuplet, c, v)
        active == get_active_runtime(m, c, v)
        was_active == active.runtime = found.runtime
        d == deactivate_runtime(m, denied_unlink)
        m1 == IF was_active THEN d.marker ELSE m
        r == remove_runtime(m1, c, v, found.runtime, denied_delete)
    IN  IF found.kind = "NoRuntimeMatch"
        THEN [res |-> ReturnCode(runtime_no_match), marker |-> m, venvs |-> v]
        ELSE IF found.kind = "MultipleRuntimeMatches"
        THEN [res |-> ReturnCode(runtime_multiple_matches), marker |-> m, venvs |-> v]
        ELSE IF active.kind # "return"
        THEN [res |-> active, marker |-> m, venvs |-> v]
        ELSE IF was_active /\ d.res.kind = "OSError"
        THEN [res |-> ReturnCode(d.res.code), marker |-> m, venvs |-> v]
        ELSE IF r.res.kind = "OSError"
        THEN [res |-> ReturnCode(r.res.code), marker |-> m1, venvs |-> v]
        ELSE IF r.res.kind # "return"
        THEN [res |-> r.res, marker |-> m1, venvs |-> v]
        ELSE [res |-> ReturnCode(0), marker |-> m1, venvs |-> r.venvs]

\* venvs.activate(project, options), options.spec being spec.
activate(m, c, v, spec, isfile, quintuplet, denied) ==
    LET d == deactivate_runtime(m, denied)
        found == find_runtime(spec, isfile, quintuplet, c, v)
        a == activate_runtime(m, found.runtime, denied)
    IN  IF spec = <<>>
        THEN IF d.res.kind = "OSError"
             THEN [res |-> ReturnCode(d.res.code), marker |-> m]
             ELSE [res |-> ReturnCode(0), marker |-> d.marker]
        ELSE IF found.kind = "NoRuntimeMatch"
        THEN [res |-> ReturnCode(runtime_no_match), marker |-> m]
        ELSE IF found.kind = "MultipleRuntimeMatches"
        THEN [res |-> ReturnCode(runtime_multiple_matches), marker |-> m]
        ELSE IF a.res.kind = "OSError"
        THEN [res |-> ReturnCode(a.res.code), marker |-> m]
        ELSE [res |-> ReturnCode(0), marker |-> a.marker]

(***************************************************************************)
(* Creating a runtime (envs.py, create_runtime, venvs.add).                *)
(***************************************************************************)
Digits == {"0", "1", "2", "3", "4", "5", "6", "7", "8", "9"}

\* The position after the longest run of digits of s that starts at i.
RECURSIVE skip_digits(_, _)
skip_digits(s, i) ==
    IF i <= Len(s) /\ s[i] \in Digits THEN skip_digits(s, i + 1) ELSE i

\* The text of s from position i starts with the text t.
starts_at(s, i, t) ==
    /\ i + Len(t) - 1 <= Len(s)
    /\ \A k \in 1..Len(t) : s[i + k - 1] = t[k]

\* The positions where an optional ":" starting at i may end.
after_colon(s, i) == {i} \cup (IF starts_at(s, i, <<":">>) THEN {i + 1} ELSE {})

\* _PY_VER_RE.match(python) is not None.  The pattern is
\*   ^(\d+)(:?\.(\d+))?(:?\-(32|64))?$
\* whose groups open with ":?" (an optional colon), and whose $ also matches
\* before a final line feed.
_PY_VER_RE(python) ==
    LET major == skip_digits(python, 1)
        minor_ends ==
            {skip_digits(python, j + 1) :
                j \in {c \in after_colon(python, major) :
                         /\ starts_at(python, c, <<".">>)
                         /\ skip_digits(python, c + 1) > c + 1}}
        after_minor == {major} \cup minor_ends
        bits_ends ==
            {j + 3 :
                j \in {c \in UNION {after_colon(python, m) : m \in after_minor} :
                         \/ starts_at(python, c, <<"-", "3", "2">>)
                         \/ starts_at(python, c, <<"-", "6", "4">>)}}
        ends == after_minor \cup bits_ends
        n == Len(python)
    IN  /\ major > 1
        /\ \E e \in ends : e = n + 1 \/ (e = n /\ python[n] = "\n")

\* A resolved interpreter: found is FALSE for None.
Interpreter(found) == [kind |-> "return", found |-> found]

PyUnavailable == [kind |-> "PyUnavailable", found |-> FALSE]

\* resolve_python(python).  answer is what the machine answers the lookup:
\* "unavailable" (no py launcher on PATH), "none" (the launcher prints
\* nothing, or shutil.which finds nothing) or "found".
resolve_python(python, answer) ==
    IF _PY_VER_RE(python)
    THEN IF answer = "unavailable" THEN PyUnavailable
         ELSE Interpreter(answer = "found")
    ELSE IF _looks_like_path(python) THEN Interpreter(TRUE)
    ELSE Interpreter(answer = "found")

InterpreterNotFound == Outcome("InterpreterNotFound", None, <<>>, <<>>, 0)

PyUnavailableError == Outcome("PyUnavailable", None, <<>>, <<>>, 0)

RuntimeExists(runtime) == Outcome("RuntimeExists", runtime, <<>>, <<>>, 0)

VirtualenvNotFound == Outcome("VirtualenvNotFound", None, <<>>, <<>>, 0)

EnvironmentCreationError == Outcome("EnvironmentCreationError", None, <<>>, <<>>, 0)

CalledProcessError == Outcome("CalledProcessError", None, <<>>, <<>>, 0)

\* What the environment builder puts directly inside the directory it
\* creates.
VenvContents ==
    <<Entry(<<"b", "i", "n">>, "dir"), Entry(<<"l", "i", "b">>, "dir"),
      Entry(<<"p", "y", "v", "e", "n", "v", ".", "c", "f", "g">>, "file")>>

\* create_venv(python, env_dir, prompt): the outcome of the builder, and the
\* container and its listing afterwards.  The builder makes env_dir and its
\* missing parents; env_dir is the container itself when the quintuplet is
\* empty.
create_venv(c, v, env_dir, builder) ==
    IF builder = "VirtualenvNotFound"
    THEN [res |-> VirtualenvNotFound, container |-> c, venvs |-> v]
    ELSE IF builder = "EnvironmentCreationError"
    THEN [res |-> EnvironmentCreationError, container |-> c, venvs |-> v]
    ELSE IF builder = "CalledProcessError"
    THEN [res |-> CalledProcessError, container |-> c, venvs |-> v]
    ELSE IF env_dir = _runtime_container
    THEN [res |-> Return(None), container |-> "dir", venvs |-> VenvContents]
    ELSE [res |-> Return(None), container |-> "dir",
          venvs |-> Append(v, Entry(env_dir[Len(env_dir)], "dir"))]

\* create_runtime(interpreter_spec).  quintuplet is the output of the
\* quintuplet query, empty when the query fails.
create_runtime(c, v, interpreter_spec, answer, quintuplet, builder) ==
    LET python == resolve_python(interpreter_spec, answer)
        env_name == quintuplet
        env_dir == joinpath(_runtime_container, env_name)
        made == create_venv(c, v, env_dir, builder)
    IN  IF python.kind = "PyUnavailable"
        THEN [res |-> PyUnavailableError, container |-> c, venvs |-> v]
        ELSE IF ~python.found
        THEN [res |-> InterpreterNotFound, container |-> c, venvs |-> v]
        ELSE IF exists(env_dir, c, v)
        THEN [res |-> RuntimeExists(Runtime(env_dir)), container |-> c, venvs |-> v]
        ELSE IF made.res.kind # "return"
        THEN made
        ELSE [res |-> Return(Runtime(env_dir)), container |-> made.container,
              venvs |-> made.venvs]

\* venvs.add(project, options), options.python being python.
add(m, c, v, python, answer, quintuplet, builder, denied) ==
    LET created == create_runtime(c, v, python, answer, quintuplet, builder)
        a == activate_runtime(m, created.res.runtime, denied)
        unchanged == [marker |-> m, container |-> c, venvs |-> v, activated |-> FALSE]
    IN  IF created.res.kind = "InterpreterNotFound"
        THEN [res |-> ReturnCode(interpreter_not_found)] @@ unchanged
        ELSE IF created.res.kind = "PyUnavailable"
        THEN [res |-> ReturnCode(py_unavailable)] @@ unchanged
        ELSE IF created.res.kind = "VirtualenvNotFound"
        THEN [res |-> ReturnCode(virtualenv_unavailable)] @@ unchanged
        ELSE IF created.res.kind = "EnvironmentCreationError"
        THEN [res |-> ReturnCode(runtime_invalid)] @@ unchanged
        ELSE IF created.res.kind # "return"
        THEN [res |-> created.res] @@ unchanged
        ELSE [res |-> ReturnCode(0), marker |-> a.marker,
              container |-> created.container, venvs |-> created.venvs,
              activated |-> a.res.kind = "return"]

(***************************************************************************)
(* Locating the project.  A path is a directory of the tree (a level, 1    *)
(* being the working directory, with an empty name) or an entry of one:    *)
(* its .venvs, its pyproject.toml, or a name that nothing has.             *)
(***************************************************************************)
MaxDepth == 2

PathAt(level, n) == [level |-> level, name |-> n]

Dir(level) == PathAt(level, "")

parent(path) == Dir(path.level)

\* What is at the path: "dir", "file" or "absent".
kind_at(t, path) ==
    IF path.level \notin 1..Len(t) THEN "absent"
    ELSE IF path.name = "" THEN "dir"
    ELSE IF path.name = ".venvs" THEN t[path.level].venvs
    ELSE IF path.name = "pyproject.toml" THEN t[path.level].pyproject
    ELSE "absent"

is_dir(t, path) == kind_at(t, path) = "dir"

is_file(t, path) == kind_at(t, path) = "file"

\* path.joinpath(marker): only the directories of the tree have entries.
child(path, n) == IF path.name = "" THEN PathAt(path.level, n) ELSE PathAt(0, n)

\* path.parents, nearest first.
parents(t, path) ==
    LET first == IF path.name = "" THEN path.level + 1 ELSE path.level
    IN  [i \in 1..(Len(t) + 1 - first) |-> Dir(first + i - 1)]

Project(root) == [kind |-> "Project", root |-> root]

_ProjectNotFound(start) == [kind |-> "_ProjectNotFound", start |-> start]

ProjectNotFound(start) == [kind |-> "ProjectNotFound", start |-> start]

\* The marker names and the checks that go with them, in order.
_DISCOVERY_VARIANTS == <<[name |-> ".venvs", check |-> "dir"],
                         [name |-> "pyproject.toml", check |-> "file"]>>

\* A variant of _project_from_path that wants a marker in the directory.
_project_from_path_marked(t, start) ==
    LET named == \E i \in DOMAIN _DISCOVERY_VARIANTS :
                   /\ start.name = _DISCOVERY_VARIANTS[i].name
                   /\ kind_at(t, start) = _DISCOVERY_VARIANTS[i].check
        path == IF named THEN parent(start) ELSE start
    IN  IF /\ is_dir(t, path)
           /\ \E i \in DOMAIN _DISCOVERY_VARIANTS :
                kind_at(t, child(path, _DISCOVERY_VARIANTS[i].name))
                  = _DISCOVERY_VARIANTS[i].check
        THEN Project(path)
        ELSE _ProjectNotFound(start)

\* _project_from_path(start)
_project_from_path(t, start) ==
    LET named == \E i \in DOMAIN _DISCOVERY_VARIANTS :
                   /\ start.name = _DISCOVERY_VARIANTS[i].name
                   /\ kind_at(t, start) = _DISCOVERY_VARIANTS[i].check
        path == IF named THEN parent(start) ELSE start
    IN  IF is_dir(t, path) THEN Project(path) ELSE _ProjectNotFound(start)

\* The levels, from the working directory up, that pass the variant's check.
passing(t, variant) ==
    {l \in 1..Len(t) : kind_at(t, PathAt(l, variant.name)) = variant.check}

Min(S) == CHOOSE x \in S : \A y \in S : x <= y

\* A variant of _project_from_discovery that walks the levels in the outer
\* loop: the nearest directory with any marker.
_project_from_discovery_nearest(t) ==
    LET any == passing(t, _DISCOVERY_VARIANTS[1]) \cup passing(t, _DISCOVERY_VARIANTS[2])
    IN  IF any # {} THEN Project(Dir(Min(any))) ELSE _ProjectNotFound(Dir(1))

\* _project_from_discovery(): the variants in the outer loop, the levels in
\* the inner one.
_project_from_discovery(t) ==
    LET first == passing(t, _DISCOVERY_VARIANTS[1])
        second == passing(t, _DISCOVERY_VARIANTS[2])
    IN  IF first # {} THEN Project(Dir(Min(first)))
        ELSE IF second # {} THEN Project(Dir(Min(second)))
        ELSE _ProjectNotFound(Dir(1))

\* What dispatch ends with before the sub-command runs: opts.func is called
\* with the project.
Func(project) == [kind |-> "func", project |-> project]

\* The exit code seen for the diagnostic that was logged.
log(seen, diagnostic, code) ==
    [k \in DOMAIN seen \cup {diagnostic} |-> IF k = diagnostic THEN code ELSE seen[k]]

\* opts.project without --project.
NoProjectOption == PathAt(0, "None")

\* dispatch(argv), up to the call of the sub-command; option is the value
\* of --project.
dispatch(t, seen, option) ==
    LET project == IF option # NoProjectOption THEN _project_from_path(t, option)
                   ELSE _project_from_discovery(t)
    IN  IF project.kind = "_ProjectNotFound"
        THEN [res |-> ReturnCode(project_not_found),
              codes |-> log(seen, "project_not_found", project_not_found)]
        ELSE [res |-> Func(project), codes |-> seen]

\* up=None, the default: no bound.
UpNone == -1

\* itertools.islice(seq, stop)
islice(seq, stop) ==
    IF stop = UpNone \/ stop >= Len(seq) THEN seq ELSE SubSeq(seq, 1, stop)

_is_project_root(t, path, wanted) == is_file(t, child(path, wanted))

\* The first path of the sequence that is a project root, if any.
RECURSIVE first_root(_, _, _, _)
first_root(t, paths, wanted, start) ==
    IF paths = <<>> THEN ProjectNotFound(start)
    ELSE IF _is_project_root(t, paths[1], wanted) THEN Project(paths[1])
    ELSE first_root(t, Tail(paths), wanted, start)

\* A variant of Project.discover that looks one ancestor further.
discover_further(t, start, up) ==
    LET isfile == is_file(t, start)
        wanted == IF isfile THEN start.name ELSE "pyproject.toml"
        from == IF isfile THEN parent(start) ELSE start
    IN  first_root(t, <<from>> \o islice(parents(t, from), IF up = UpNone THEN up ELSE up + 1),
                   wanted, from)

\* Project.discover(start, up=up)
discover(t, start, up) ==
    LET isfile == is_file(t, start)
        wanted == IF isfile THEN start.name ELSE "pyproject.toml"
        from == IF isfile THEN parent(start) ELSE start
    IN  first_root(t, <<from>> \o islice(parents(t, from), up), wanted, from)

(***************************************************************************)
(* Launching a command in a runtime.  An environment is a function from    *)
(* variable names to texts; os_name is os.name, "posix" or "nt".           *)
(***************************************************************************)
MaxArgs == 2

\* os.pathsep and os.sep
pathsep(os_name) == IF os_name = "nt" THEN ";" ELSE ":"

sep(os_name) == IF os_name = "nt" THEN "\\" ELSE "/"

\* Where the project is, as the components of an absolute path.
ProjectRoot == <<<<>>, <<"p">>>>

\* os.fspath(path) of a path of the project.
fspath(os_name, path) == join(ProjectRoot \o path, sep(os_name))

\* os.environ.get(key)
get(env, key) == IF key \in DOMAIN env THEN env[key] ELSE <<>>

\* env[key] = value
set(env, key, value) ==
    [k \in DOMAIN env \cup {key} |-> IF k = key THEN value ELSE env[k]]

\* The runtime's directories of executables that exist.
bin_dirs(os_name, runtime, has_bin, has_scripts) ==
    (IF has_bin THEN <<fspath(os_name, Append(runtime.root, <<"b", "i", "n">>))>> ELSE <<>>)
    \o (IF has_scripts
        THEN <<fspath(os_name, Append(runtime.root, <<"S", "c", "r", "i", "p", "t", "s">>))>>
        ELSE <<>>)

\* A variant of derive_environ_path that puts the PATH of the process first.
derive_environ_path_last(os_name, env, runtime, has_bin, has_scripts) ==
    LET path == get(env, "PATH")
        paths == bin_dirs(os_name, runtime, has_bin, has_scripts)
    IN  join((IF path # <<>> THEN <<path>> ELSE <<>>) \o paths, pathsep(os_name))

\* runtime.derive_environ_path(): an unset PATH and an empty one add nothing.
derive_environ_path(os_name, env, runtime, has_bin, has_scripts) ==
    LET path == get(env, "PATH")
        paths == bin_dirs(os_name, runtime, has_bin, has_scripts)
    IN  join(paths \o (IF path # <<>> THEN <<path>> ELSE <<>>), pathsep(os_name))

\* _Runnable.__init__: the environment of the command.
_env(os_name, env, runtime, has_bin, has_scripts) ==
    set(set(env, "PATH", derive_environ_path(os_name, env, runtime, has_bin, has_scripts)),
        "VIRTUAL_ENV", fspath(os_name, runtime.root))

\* _resolve_command(): which is what shutil.which answers on the derived
\* PATH: "none", "found", or "gone" for a file that is no longer one.
_resolve_command(cmd, which) ==
    IF which = "found" THEN <<"/", "x", "/">> \o cmd ELSE <<>>

\* re.sub(r'(\\*)"', r'\1\1\\"', value) from position i on; run is the
\* backslashes read since the last other character.
RECURSIVE escape_from(_, _, _)
escape_from(value, i, run) ==
    IF i > Len(value) THEN run
    ELSE IF value[i] = "\\" THEN escape_from(value, i + 1, Append(run, "\\"))
    ELSE IF value[i] = "\"" THEN run \o run \o <<"\\", "\"">> \o escape_from(value, i + 1, <<>>)
    ELSE run \o <<value[i]>> \o escape_from(value, i + 1, <<>>)

escape(value) == escape_from(value, 1, <<>>)

\* _quote_if_contains(value, pattern), the pattern being a class of
\* characters.
_quote_if_contains(value, foul) ==
    IF ~\E i \in 1..Len(value) : value[i] \in foul THEN value
    ELSE <<"\"">> \o escape(value) \o <<"\"">>

\* A variant of _cmdify for which a parenthesis is foul in an argument too.
_cmdify_parens(cmd, args) ==
    LET foul == Whitespace \cup {"(", ")"}
        c == _quote_if_contains(cmd, foul)
        arg == join([i \in 1..Len(args) |-> _quote_if_contains(args[i], foul)], " ")
    IN  c \o <<" ">> \o arg

\* _NTRunnable._cmdify()
_cmdify(cmd, args) ==
    LET c == _quote_if_contains(cmd, Whitespace \cup {"(", ")"})
        arg == join([i \in 1..Len(args) |-> _quote_if_contains(args[i], Whitespace)], " ")
    IN  c \o <<" ">> \o arg

\* What the process becomes or calls: how is "execlpe", "call" or "shell",
\* code the exit status of the command.
Launched(how, file, argv, env, built, code) ==
    [kind |-> "launched", how |-> how, file |-> file, argv |-> argv, env |-> env,
     built |-> built, code |-> code]

_NoActiveRuntime == Outcome("_NoActiveRuntime", None, <<>>, <<>>, 0)

\* _find_runtime(project, options)
_find_runtime(m, c, v, spec, isfile, quintuplet) ==
    LET active == get_active_runtime(m, c, v)
    IN  IF spec # <<>> THEN find_runtime(spec, isfile, quintuplet, c, v)
        ELSE IF active.kind = "return" /\ active.runtime = None THEN _NoActiveRuntime
        ELSE active

\* _POSIXRunnable.run()
_POSIXRunnable_run(seen, env, built, cmd, args, which, status) ==
    LET command == _resolve_command(cmd, which)
    IN  IF command = <<>>
        THEN [res |-> ReturnCode(ENOENT), codes |-> log(seen, "command_not_found", ENOENT)]
        ELSE [res |-> Launched("execlpe", command, <<cmd>> \o args, built, built, status),
              codes |-> seen]

\* _NTRunnable.run()
_NTRunnable_run(seen, env, built, cmd, args, which, status) ==
    LET proc == _resolve_command(cmd, which)
    IN  IF proc # <<>>
        THEN [res |-> Launched("call", proc, <<proc>> \o args, built, built, status),
              codes |-> seen]
        ELSE [res |-> Launched("shell", <<>>, <<_cmdify(cmd, args)>>, env, built, status),
              codes |-> seen]

\* procs.run(project, options): the outcome and the diagnostics logged.
\* tool holds what the machine answers: os_name, has_bin, has_scripts,
\* which and status.
run(m, c, v, seen, env, spec, isfile, quintuplet, cmd, args, tool) ==
    LET found == _find_runtime(m, c, v, spec, isfile, quintuplet)
        built == _env(tool.os_name, env, found.runtime, tool.has_bin, tool.has_scripts)
    IN  IF found.kind = "_NoActiveRuntime"
        THEN [res |-> ReturnCode(runtime_no_active),
              codes |-> log(seen, "runtime_no_active", runtime_no_active)]
        ELSE IF found.kind = "MultipleRuntimeMatches"
        THEN [res |-> ReturnCode(runtime_multiple_matches),
              codes |-> log(seen, "runtime_multiple_matches", runtime_multiple_matches)]
        ELSE IF found.kind = "NoRuntimeMatch"
        THEN [res |-> ReturnCode(runtime_no_match),
              codes |-> log(seen, "runtime_no_match", runtime_no_match)]
        ELSE IF found.kind # "return"
        THEN [res |-> found, codes |-> seen]
        ELSE IF tool.os_name = "nt"
        THEN _NTRunnable_run(seen, env, built, cmd, args, tool.which, tool.status)
        ELSE _POSIXRunnable_run(seen, env, built, cmd, args, tool.which, tool.status)

(***************************************************************************)
(* Invocations at the same time.  Two run activate_runtime, one runs       *)
(* get_active_runtime; each is a sequence of steps on the shared marker.   *)
(***************************************************************************)
Writers == {"w1", "w2"}

Reader == "r"

\* An invocation: pc is "idle" (it does not run), "start", "opened",
\* "written", "checked" or "done".
Proc(pc, runtime, before, result) ==
    [pc |-> pc, runtime |-> runtime, before |-> before, result |-> result]

NoProcs == [p \in Writers \cup {Reader} |-> Proc("idle", None, MarkerAbsent, Return(None))]

\* marker.open("w"): the file is made or emptied.
open_w(m) ==
    IF m.kind = "dir" \/ (m.kind = "symlink" /\ m.tkind = "dir")
    THEN [res |-> OSError(EISDIR), marker |-> m]
    ELSE IF m.kind = "symlink"
    THEN [res |-> Return(None), marker |-> MarkerLinkToFile(<<>>)]
    ELSE [res |-> Return(None), marker |-> MarkerFile(<<>>)]

\* The buffered text reaches the file when it is closed: it is written at
\* the start of the file, over what is there, and what the file has beyond
\* the text stays.
flush(m, text) ==
    [m EXCEPT !.content = text \o SubSeq(m.content, Len(text) + 1, Len(m.content))]

(***************************************************************************)
(* Inputs.                                                                 *)
(***************************************************************************)
\* The five canonical aliases of a five-part name: ver, impl-ver,
\* impl-ver-plat, impl-ver-sys-plat, impl-ver-sys-plat-hash.
canonical_alias(n, k) ==
    LET p == split(n, "-")
    IN  IF k = 1 THEN p[2]
        ELSE IF k = 2 THEN join(<<p[1], p[2]>>, "-")
        ELSE IF k = 3 THEN join(<<p[1], p[2], p[4]>>, "-")
        ELSE IF k = 4 THEN join(<<p[1], p[2], p[3], p[4]>>, "-")
        ELSE join(p, "-")

\* str.upper(), to spell an alias in another letter case.
upper(s) ==
    [i \in 1..Len(s) |->
        IF \E u \in DOMAIN LowerOf : LowerOf[u] = s[i]
        THEN CHOOSE u \in DOMAIN LowerOf : LowerOf[u] = s[i]
        ELSE s[i]]

FivePartNames == {e.name : e \in {x \in EntryPool : Len(split(x.name, "-")) = 5}}

PathAlias == <<".", "/", "p", "y", "t", "h", "o", "n">>

SixPartAlias == <<"a", "-", "b", "-", "c", "-", "d", "-", "e", "-", "f">>

\* The aliases find_runtime is applied to.
AliasPool ==
    {canonical_alias(n, k) : n \in FivePartNames, k \in 1..5}
    \cup {upper(canonical_alias(NameLink, k)) : k \in {2, 5}}
    \cup {lower(canonical_alias(NameUpper, k)) : k \in {2, 5}}
    \cup {<<>>,
          <<"-">>,
          <<"-", "-", "-", "-">>,
          <<"c", "p", "y", "t", "h", "o", "n">>,
          <<"p", "y", "p", "y">>,
          SixPartAlias,
          PathAlias}

\* The specs the venv sub-commands are given.
SpecPool ==
    {<<>>, canonical_alias(Name39, 1), canonical_alias(Name310, 1), Name39,
     <<"p", "y", "p", "y">>, SixPartAlias, PathAlias}

\* What get_interpreter_quintuplet may answer for the interpreter at
\* PathAlias: empty when the query fails.
QuintupletPool == {<<>>, Name39}

\* The answers of the filesystem and of the interpreter that from_alias
\* asks for: only a path alias asks.
IsFilePool(alias) == IF _looks_like_path(alias) THEN BOOLEAN ELSE {FALSE}

QuintupletsOf(alias, isfile) ==
    IF _looks_like_path(alias) /\ isfile THEN QuintupletPool ELSE {<<>>}

\* The interpreter specs the add command is given: a launcher version, a
\* command name, a path.
PythonPool ==
    {canonical_alias(Name39, 1), <<"p", "y", "t", "h", "o", "n", "3">>, PathAlias}

\* The answers a lookup of the spec may get.
AnswersOf(python) ==
    IF _PY_VER_RE(python) THEN {"unavailable", "none", "found"}
    ELSE IF _looks_like_path(python) THEN {"found"}
    ELSE {"none", "found"}

\* The outcomes of the environment builder.
BuilderPool == {"ok", "VirtualenvNotFound", "EnvironmentCreationError", "CalledProcessError"}

\* A directory of the tree: what its .venvs and its pyproject.toml are.
Level(v, p) == [venvs |-> v, pyproject |-> p]

\* A project directory, marked by its manifest, directly below the root.
PlainTree == <<Level("absent", "file"), Level("absent", "absent")>>

\* An environment without PATH and VIRTUAL_ENV.
PlainEnviron == [k \in {"HOME"} |-> <<"/", "h">>]

\* No diagnostic logged yet.
NoCodes == [k \in {} |-> 0]

\* What a directory of the tree may have as .venvs and as pyproject.toml.
LevelPool == {Level(v, p) : v \in {"absent", "dir", "file"}, p \in {"absent", "file", "dir"}}

\* The trees: the working directory and MaxDepth ancestors.
TreePool == [1..(MaxDepth + 1) -> LevelPool]

\* The paths given as --project or as the start of discover.
PathPool(t) ==
    {PathAt(l, n) : l \in 1..Len(t), n \in {"", ".venvs", "pyproject.toml", "nothing"}}

\* The values of up.
UpPool == {UpNone} \cup 0..MaxDepth

\* The environments of the process: PATH unset, empty, of two entries.
EnvironPool ==
    {PlainEnviron,
     set(set(PlainEnviron, "PATH", <<>>), "VIRTUAL_ENV", <<"/", "o">>),
     set(PlainEnviron, "PATH", <<"/", "u", ":", "/", "b">>)}

\* What the machine answers a launch.
ToolPool ==
    [os_name : {"posix", "nt"}, has_bin : BOOLEAN, has_scripts : BOOLEAN,
     which : {"none", "found", "gone"}, status : {0, 3}]

\* Nothing is launched: one answer stands for all.
NoTool == [os_name |-> "posix", has_bin |-> TRUE, has_scripts |-> FALSE,
           which |-> "found", status |-> 0]

\* The command tokens and arguments: plain, with a space, with a quote, with
\* backslashes before a quote, with both a space and a quote, with a
\* parenthesis, with a backslash at the end.
TokenPool ==
    {<<"a">>,
     <<"a", " ", "b">>,
     <<"a", "\"", "b">>,
     <<"a", "\\", "\\", "\"">>,
     <<"a", " ", "\\", "\"", "b">>,
     <<"(", "a", ")">>,
     <<"a", " ", "\\">>}

RECURSIVE ArgsUpTo(_)
ArgsUpTo(n) ==
    IF n = 0 THEN {<<>>}
    ELSE LET shorter == ArgsUpTo(n - 1)
         IN  shorter \cup {Append(l, e) : l \in {x \in shorter : Len(x) = n - 1}, e \in TokenPool}

\* The command run is given.
CommandPool ==
    {[cmd |-> <<"(", "a", ")">>, args |-> <<<<"a", " ", "b">>, <<"a", "\"", "b">>>>]}

\* The specs run is given: none, a version, an implementation nothing has,
\* the path of an interpreter.
RunSpecPool == {<<>>, canonical_alias(Name39, 1), <<"p", "y", "p", "y">>, PathAlias}

\* The longest interpreter spec tried as a version.
MaxSpecLen == 5

\* The characters of the interpreter specs tried as versions.
VersionChars == {"3", "2", ".", "-", ":", "\n"}

RECURSIVE TextsUpTo(_)
TextsUpTo(n) ==
    IF n = 0 THEN {<<>>}
    ELSE LET shorter == TextsUpTo(n - 1)
         IN  shorter \cup {Append(t, c) : t \in {x \in shorter : Len(x) = n - 1}, c \in VersionChars}

\* The interpreter specs resolve_python is given.
VersionPool ==
    TextsUpTo(MaxSpecLen)
    \cup {<<"p", "y", "p", "y", "3">>, <<"4", ".", "2", "-", "5", "4">>,
          <<"3", ".", "1", "1", "-", "6", "4">>, <<"3", ".", "7", "-", "3", "2">>}

\* The container entries of the marker protocol's initial states.
ProtocolEntries == {e \in EntryPool : e.name \in {Name39, Name310, NameSpace, NameLink, NameFile}}

(***************************************************************************)
(* The state machine.  One invocation of the tool performs one operation   *)
(* (last.op is "none" until it has) and exits; the files stay for the next *)
(* invocation.                                                             *)
(***************************************************************************)
\* input holds the further inputs of the operation, if any.
OpWith(o, a, ra, r, res, in) ==
    [op |-> o, alias |-> a, resolved |-> ra, runtime |-> r, result |-> res,
     pre |-> marker, input |-> in]

Op(o, a, ra, r, res) == OpWith(o, a, ra, r, res, <<>>)

NoOp == [op |-> "none", alias |-> <<>>, resolved |-> <<>>, runtime |-> None,
         result |-> Return(None), pre |-> MarkerAbsent, input |-> <<>>]

\* The surroundings of the specifications that are about the project's
\* runtimes only.
PlainOutside ==
    /\ tree = PlainTree
    /\ environ = PlainEnviron
    /\ codes = NoCodes
    /\ procs = NoProcs

\* Any listing of the container, any marker.
Init ==
    /\ container \in {"dir", "absent"}
    /\ venvs \in {l \in Listings(MaxEntries) : DistinctNames(l) /\ Range(l) \subseteq ProtocolEntries}
    /\ container = "absent" => venvs = <<>>
    /\ marker \in MarkerPool
    /\ marker = settle(marker, container, venvs)
    /\ last = NoOp
    /\ PlainOutside

\* Any listing of the container; the marker plays no part in matching.
InitFind ==
    /\ container \in {"dir", "absent"}
    /\ venvs \in {l \in Listings(MaxEntries) : DistinctNames(l)}
    /\ container = "absent" => venvs = <<>>
    /\ marker = MarkerAbsent
    /\ last = NoOp
    /\ PlainOutside

FindRuntime ==
    /\ last.op = "none"
    /\ UNCHANGED outside
    /\ \E alias \in AliasPool :
         \E isfile \in IsFilePool(alias) :
           \E q \in QuintupletsOf(alias, isfile) :
             /\ last' = Op("find_runtime", alias, resolved_alias(alias, isfile, q), None,
                           find_runtime(alias, isfile, q, container, venvs))
             /\ UNCHANGED <<container, venvs, marker>>

ActivateRuntime ==
    /\ last.op = "none"
    /\ UNCHANGED outside
    /\ \E r \in Range(iter_runtimes(container, venvs)), denied \in BOOLEAN :
         LET a == activate_runtime(marker, r, denied)
         IN  /\ marker' = a.marker
             /\ last' = Op("activate_runtime", <<>>, <<>>, r, a.res)
             /\ UNCHANGED <<container, venvs>>

DeactivateRuntime ==
    /\ last.op = "none"
    /\ UNCHANGED outside
    /\ \E denied \in BOOLEAN :
         LET d == deactivate_runtime(marker, denied)
         IN  /\ marker' = d.marker
             /\ last' = Op("deactivate_runtime", <<>>, <<>>, None, d.res)
             /\ UNCHANGED <<container, venvs>>

GetActiveRuntime ==
    /\ last.op = "none"
    /\ UNCHANGED outside
    /\ last' = Op("get_active_runtime", <<>>, <<>>, None,
                  get_active_runtime(marker, container, venvs))
    /\ UNCHANGED <<container, venvs, marker>>

RemoveRuntime ==
    /\ last.op = "none"
    /\ UNCHANGED outside
    /\ \E r \in Range(iter_runtimes(container, venvs)), denied \in BOOLEAN :
         LET d == remove_runtime(marker, container, venvs, r, denied)
         IN  /\ venvs' = d.venvs
             /\ marker' = settle(marker, container, d.venvs)
             /\ last' = OpWith("remove_runtime", <<>>, <<>>, r, d.res, [call |-> d.call])
             /\ UNCHANGED container

Remove ==
    /\ last.op = "none"
    /\ UNCHANGED outside
    /\ \E spec \in SpecPool, du \in BOOLEAN, dd \in BOOLEAN :
         \E isfile \in IsFilePool(spec) :
           \E q \in QuintupletsOf(spec, isfile) :
             \E d \in {remove(marker, container, venvs, spec, isfile, q, du, dd)} :
               LET f == find_runtime(spec, isfile, q, container, venvs)
               IN  /\ marker' = settle(d.marker, container, d.venvs)
                   /\ venvs' = d.venvs
                   /\ last' = Op("remove", spec, resolved_alias(spec, isfile, q), f.runtime, d.res)
                   /\ UNCHANGED container

Activate ==
    /\ last.op = "none"
    /\ UNCHANGED outside
    /\ \E spec \in SpecPool, denied \in BOOLEAN :
         \E isfile \in IsFilePool(spec) :
           \E q \in QuintupletsOf(spec, isfile) :
             LET d == activate(marker, container, venvs, spec, isfile, q, denied)
                 f == find_runtime(spec, isfile, q, container, venvs)
             IN  /\ marker' = d.marker
                 /\ last' = Op("activate", spec, resolved_alias(spec, isfile, q), f.runtime, d.res)
                 /\ UNCHANGED <<container, venvs>>

Add ==
    /\ last.op = "none"
    /\ UNCHANGED outside
    /\ \E python \in PythonPool :
         \E answer \in AnswersOf(python) :
           \E q \in (IF answer = "found" THEN QuintupletPool ELSE {<<>>}) :
             \E builder \in (IF answer = "found" THEN BuilderPool ELSE {"ok"}) :
               \E denied \in (IF answer = "found" /\ builder = "ok" THEN BOOLEAN ELSE {FALSE}) :
                 LET d == add(marker, container, venvs, python, answer, q, builder, denied)
                     cr == create_runtime(container, venvs, python, answer, q, builder)
                 IN  /\ marker' = d.marker
                     /\ container' = d.container
                     /\ venvs' = d.venvs
                     /\ last' = OpWith("add", python, q, cr.res.runtime, d.res,
                                        [answer |-> answer, builder |-> builder,
                                         activated |-> d.activated])

CreateRuntime ==
    /\ last.op = "none"
    /\ UNCHANGED outside
    /\ \E python \in PythonPool :
         \E answer \in AnswersOf(python) :
           \E q \in (IF answer = "found" THEN QuintupletPool ELSE {<<>>}) :
             \E builder \in (IF answer = "found" THEN BuilderPool ELSE {"ok"}) :
               LET d == create_runtime(container, venvs, python, answer, q, builder)
               IN  /\ container' = d.container
                   /\ venvs' = d.venvs
                   /\ last' = OpWith("create_runtime", python, q, d.res.runtime, d.res,
                                      [answer |-> answer, builder |-> builder])
                   /\ UNCHANGED marker

Dispatch ==
    /\ last.op = "none"
    /\ \E option \in PathPool(tree) \cup {NoProjectOption} :
         LET d == dispatch(tree, codes, option)
         IN  /\ codes' = d.codes
             /\ last' = OpWith("dispatch", <<>>, <<>>, None, d.res, [project |-> option])
    /\ UNCHANGED <<container, venvs, marker, tree, environ, procs>>

Discover ==
    /\ last.op = "none"
    /\ \E start \in {x \in PathPool(tree) : x.level = 1}, up \in UpPool :
         last' = OpWith("discover", <<>>, <<>>, None, discover(tree, start, up),
                        [start |-> start, up |-> up])
    /\ UNCHANGED <<container, venvs, marker, tree, environ, codes, procs>>

Run ==
    /\ last.op = "none"
    /\ \E spec \in RunSpecPool, command \in CommandPool :
         \E isfile \in IsFilePool(spec) :
           \E q \in QuintupletsOf(spec, isfile) :
             LET found == _find_runtime(marker, container, venvs, spec, isfile, q)
             IN  \E tool \in (IF found.kind = "return" THEN ToolPool ELSE {NoTool}) :
                   LET d == run(marker, container, venvs, codes, environ, spec, isfile, q,
                                command.cmd, command.args, tool)
                   IN  /\ codes' = d.codes
                       /\ last' = OpWith("run", spec, resolved_alias(spec, isfile, q),
                                          found.runtime, d.res,
                                          [cmd |-> command.cmd, args |-> command.args,
                                           tool |-> tool])
    /\ UNCHANGED <<container, venvs, marker, tree, environ, procs>>

Cmdify ==
    /\ last.op = "none"
    /\ \E cmd \in TokenPool, args \in ArgsUpTo(MaxArgs) :
         last' = OpWith("_cmdify", <<>>, <<>>, None, Return(None),
                        [cmd |-> cmd, args |-> args, line |-> _cmdify(cmd, args)])
    /\ UNCHANGED <<container, venvs, marker, tree, environ, codes, procs>>

ResolvePython ==
    /\ last.op = "none"
    /\ \E python \in VersionPool :
         \E answer \in AnswersOf(python) :
           last' = OpWith("resolve_python", python, <<>>, None, Return(None),
                          [answer |-> answer, version |-> _PY_VER_RE(python),
                           resolved |-> resolve_python(python, answer)])
    /\ UNCHANGED <<container, venvs, marker, tree, environ, codes, procs>>

\* with marker.open("w", newline="\n", encoding="utf8") as f
OpenMarker ==
    /\ \E p \in Writers, r \in Range(iter_runtimes(container, venvs)) :
         /\ procs[p].pc = "start"
         /\ marker' = open_w(marker).marker
         /\ procs' = [procs EXCEPT ![p] = Proc(IF open_w(marker).res.kind = "return"
                                                THEN "opened" ELSE "done",
                                                r, marker, open_w(marker).res)]
    /\ UNCHANGED <<container, venvs, last, tree, environ, codes>>

\* f.write(...): the text is in the buffer of f.
WriteMarker ==
    /\ \E p \in Writers :
         /\ procs[p].pc = "opened"
         /\ procs' = [procs EXCEPT ![p].pc = "written"]
    /\ UNCHANGED <<container, venvs, marker, last, tree, environ, codes>>

\* The end of the with-block closes f.
CloseMarker ==
    /\ \E p \in Writers :
         /\ procs[p].pc = "written"
         /\ marker' = flush(marker, written_text(procs[p].runtime))
         /\ procs' = [procs EXCEPT ![p].pc = "done"]
    /\ UNCHANGED <<container, venvs, last, tree, environ, codes>>

\* get_active_runtime: self._runtime_marker.is_file()
CheckMarker ==
    /\ procs[Reader].pc = "start"
    /\ procs' = [procs EXCEPT ![Reader] =
                   IF marker_is_file(marker)
                   THEN Proc("checked", None, marker, Return(None))
                   ELSE Proc("done", None, marker,
                             get_active_runtime(marker, container, venvs))]
    /\ UNCHANGED <<container, venvs, marker, last, tree, environ, codes>>

\* get_active_runtime: read_text() and what follows.
ReadMarker ==
    /\ procs[Reader].pc = "checked"
    /\ procs' = [procs EXCEPT ![Reader].pc = "done",
                              ![Reader].result = get_active_runtime(marker, container, venvs)]
    /\ UNCHANGED <<container, venvs, marker, last, tree, environ, codes>>

\* The invocation ends: its outcome is gone, the files stay.
Exit ==
    /\ last.op # "none"
    /\ UNCHANGED outside
    /\ last' = NoOp
    /\ UNCHANGED <<container, venvs, marker>>

Next ==
    \/ ActivateRuntime
    \/ DeactivateRuntime
    \/ GetActiveRuntime
    \/ RemoveRuntime
    \/ Remove
    \/ Activate
    \/ Exit

Spec == Init /\ [][Next]_vars

\* A project without a container, or with one or two runtimes, the first of
\* them active or none, or with a marker that something else wrote.
InitCreate ==
    /\ container \in {"dir", "absent"}
    /\ venvs \in {<<>>, <<Entry(Name39, "dir")>>, <<Entry(Name39, "dir"), Entry(Name310, "dir")>>}
    /\ container = "absent" => venvs = <<>>
    /\ marker \in {MarkerAbsent, MarkerDir, MarkerFile(<<"v", "e", "n", "v">>),
                   MarkerFile(marker_text(Runtime(joinpath(_runtime_container, Name39))))}
    /\ marker.content # <<"v", "e", "n", "v">> => (marker.kind = "file" => venvs # <<>>)
    /\ last = NoOp
    /\ PlainOutside

NextCreate ==
    \/ CreateRuntime
    \/ Add
    \/ Remove
    \/ Activate
    \/ Exit

SpecCreate == InitCreate /\ [][NextCreate]_vars

InitDiscover ==
    /\ container = "absent"
    /\ venvs = <<>>
    /\ marker = MarkerAbsent
    /\ last = NoOp
    /\ tree \in TreePool
    /\ environ = PlainEnviron
    /\ codes = NoCodes
    /\ procs = NoProcs

NextDiscover ==
    \/ Dispatch
    \/ Discover
    \/ Exit

SpecDiscover == InitDiscover /\ [][NextDiscover]_vars

\* A project with one runtime or two, the first of them active or none.
InitLaunch ==
    /\ container = "dir"
    /\ venvs \in {<<Entry(Name39, "dir")>>, <<Entry(Name39, "dir"), Entry(Name310, "dir")>>}
    /\ marker \in {MarkerAbsent, MarkerFile(marker_text(Runtime(joinpath(_runtime_container, Name39))))}
    /\ last = NoOp
    /\ tree \in {PlainTree, <<Level("absent", "absent"), Level("file", "dir")>>}
    /\ environ \in EnvironPool
    /\ codes = NoCodes
    /\ procs = NoProcs

NextLaunch ==
    \/ Dispatch
    \/ Run
    \/ Exit

SpecLaunch == InitLaunch /\ [][NextLaunch]_vars

InitCmdify ==
    /\ container = "absent"
    /\ venvs = <<>>
    /\ marker = MarkerAbsent
    /\ last = NoOp
    /\ PlainOutside

NextCmdify ==
    \/ Cmdify
    \/ Exit

SpecCmdify == InitCmdify /\ [][NextCmdify]_vars

NextResolve ==
    \/ ResolvePython
    \/ Exit

SpecResolve == InitCmdify /\ [][NextResolve]_vars

\* Two runtimes, one of them active or none, and three invocations started.
InitRace ==
    /\ container = "dir"
    /\ venvs = <<Entry(Name39, "dir"), Entry(Name310, "dir")>>
    /\ marker \in {MarkerAbsent} \cup
                  {MarkerFile(written_text(Runtime(joinpath(_runtime_container, n)))) :
                     n \in {Name39, Name310}}
    /\ last = NoOp
    /\ tree = PlainTree
    /\ environ = PlainEnviron
    /\ codes = NoCodes
    /\ procs = [p \in Writers \cup {Reader} |-> Proc("start", None, MarkerAbsent, Return(None))]

NextRace ==
    \/ OpenMarker
    \/ WriteMarker
    \/ CloseMarker
    \/ CheckMarker
    \/ ReadMarker

SpecRace == InitRace /\ [][NextRace]_vars

NextFind ==
    \/ FindRuntime
    \/ Exit

SpecFind == InitFind /\ [][NextFind]_vars

(***************************************************************************)
(* Properties of find_runtime, under SpecFind.                             *)
(***************************************************************************)
Runtimes == Range(iter_runtimes(container, venvs))

FivePart(n) == Len(split(n, "-")) = 5

\* The alias parses: it splits on "-" into one to five parts.
Parses(alias) == Len(split(alias, "-")) \in 1..5

\* The enumerated runtimes that the matcher of the (resolved) alias matches;
\* none when the alias does not parse.
Matched(alias) ==
    IF ~Parses(alias) THEN {}
    ELSE {r \in Runtimes : match(from_alias(alias, FALSE, <<>>).matcher, r)}

\* The outcome of find_runtime selects r: it returns r, or lists r among
\* the matches of MultipleRuntimeMatches.
Selects(res, r) ==
    \/ res.kind = "return" /\ res.runtime = r
    \/ res.kind = "MultipleRuntimeMatches" /\ r \in Range(res.list)

\* C1: find_runtime(alias) raises NoRuntimeMatch with the alias and the whole
\* listing when no enumerated runtime matches (also when the alias does not
\* split into 1-5 parts), returns the runtime when exactly one matches, and
\* raises MultipleRuntimeMatches with the alias and exactly the matching
\* runtimes when several match.
FindRuntimeContract ==
    last.op = "find_runtime" =>
      LET M == Matched(last.resolved)
          res == last.result
      IN  /\ M = {} =>
                /\ res.kind = "NoRuntimeMatch"
                /\ res.alias = last.alias
                /\ res.list = iter_runtimes(container, venvs)
          /\ Cardinality(M) = 1 => res.kind = "return" /\ res.runtime \in M
          /\ Cardinality(M) > 1 =>
                /\ res.kind = "MultipleRuntimeMatches"
                /\ res.alias = last.alias
                /\ Range(res.list) = M
                /\ Len(res.list) = Cardinality(M)

\* Two runtimes match the alias and find_runtime raised MultipleRuntimeMatches.
FindRuntimeAmbiguous ==
    /\ last.op = "find_runtime"
    /\ Cardinality(Matched(last.resolved)) = 2
    /\ last.result.kind = "MultipleRuntimeMatches"
    /\ Len(last.result.list) = 2

\* A quintuplet name as the tool makes it: five parts, lower case.
ValidQuintuplet(n) == FivePart(n) /\ n = lower(n)

\* C2: each of the five canonical aliases built from the parts of a valid
\* (five-part, lower-case) runtime name selects that runtime.
CanonicalAliasesMatch ==
    last.op = "find_runtime" =>
      \A r \in Runtimes : \A k \in 1..5 :
        (ValidQuintuplet(name(r)) /\ last.alias = canonical_alias(name(r), k))
        => Selects(last.result, r)

\* find_runtime returned a runtime for its own impl-ver-plat alias.
CanonicalThreePartMatched ==
    /\ last.op = "find_runtime"
    /\ last.result.kind = "return"
    /\ ValidQuintuplet(name(last.result.runtime))
    /\ last.alias = canonical_alias(name(last.result.runtime), 3)

\* C3: a runtime whose name is not five parts is never returned by
\* find_runtime and never listed in MultipleRuntimeMatches.matches.
NonQuintupletNeverMatched ==
    last.op = "find_runtime" =>
      \A r \in Runtimes : ~FivePart(name(r)) => ~Selects(last.result, r)

\* The alias is the very name of an enumerated one-part directory, and
\* find_runtime raised NoRuntimeMatch listing that directory as tried.
NonQuintupletOnlyTried ==
    /\ last.op = "find_runtime"
    /\ last.alias = NameOne
    /\ last.result.kind = "NoRuntimeMatch"
    /\ Runtime(_runtime_container \o <<NameOne>>) \in Range(last.result.list)

Cpython == <<"c", "p", "y", "t", "h", "o", "n">>

Runtime39 == Runtime(_runtime_container \o <<Name39>>)

Runtime310 == Runtime(_runtime_container \o <<Name310>>)

\* find_runtime("cpython") was called with exactly the two cpython runtimes
\* in the container.
CpythonCase ==
    /\ last.op = "find_runtime"
    /\ last.alias = Cpython
    /\ Runtimes = {Runtime39, Runtime310}
    /\ Len(venvs) = 2

\* C8 as stated: with exactly those two runtimes, find_runtime("cpython")
\* raises MultipleRuntimeMatches listing both.
CpythonIsAmbiguous ==
    CpythonCase =>
      /\ last.result.kind = "MultipleRuntimeMatches"
      /\ Range(last.result.list) = {Runtime39, Runtime310}

\* C8, amended: a one-part alias is a version, so find_runtime("cpython")
\* raises NoRuntimeMatch with the alias and both runtimes as tried.
CpythonMatchesNothing ==
    CpythonCase =>
      /\ last.result.kind = "NoRuntimeMatch"
      /\ last.result.alias = Cpython
      /\ Range(last.result.list) = {Runtime39, Runtime310}
      /\ Len(last.result.list) = 2

\* find_runtime("cpython") raised NoRuntimeMatch with the two runtimes there.
CpythonTried ==
    CpythonCase /\ last.result.kind = "NoRuntimeMatch"

\* The alias equals the name up to letter case: each non-empty part of its
\* matcher, and the hash if given, is the lower-cased corresponding part of
\* the name.
EqualUpToCase(alias, n) ==
    LET m == from_alias(alias, FALSE, <<>>).matcher
        p == split(n, "-")
    IN  /\ Parses(alias)
        /\ FivePart(n)
        /\ \A i \in 1..4 : m._parts[i] # <<>> => m._parts[i] = lower(p[i])
        /\ m._hash # <<>> => m._hash = lower(p[5])

\* C9: matching is case-insensitive on both sides: an alias equal to a
\* five-part directory name up to letter case selects that runtime.
CaseInsensitiveMatch ==
    last.op = "find_runtime" =>
      \A r \in Runtimes :
        EqualUpToCase(last.resolved, name(r)) => Selects(last.result, r)

(***************************************************************************)
(* Properties of the marker protocol, under Spec.                          *)
(***************************************************************************)
\* C4: activate_runtime(r), r an enumerated runtime, on a marker that was
\* absent or a regular file, followed by get_active_runtime() on the
\* unmodified files, returns r.
ActivateThenGetActive ==
    (/\ last.op = "activate_runtime"
     /\ last.result.kind = "return"
     /\ last.pre.kind \in {"absent", "file"})
    => get_active_runtime(marker, container, venvs) = Return(last.runtime)

\* C5: once deactivate_runtime() has succeeded (directly, or through the
\* activate command given an empty spec) get_active_runtime() returns None;
\* on an absent marker it raises the OSError (the command returns its errno)
\* and changes nothing.
DeactivateContract ==
    [][/\ (last.op = "none" /\ last'.op = "deactivate_runtime") =>
            /\ last'.result.kind = "return" =>
                 get_active_runtime(marker', container', venvs') = Return(None)
            /\ marker.kind = "absent" =>
                 /\ last'.result = OSError(ENOENT)
                 /\ UNCHANGED <<container, venvs, marker>>
       /\ (last.op = "none" /\ last'.op = "activate" /\ last'.alias = <<>>) =>
            /\ last'.result = ReturnCode(0) =>
                 get_active_runtime(marker', container', venvs') = Return(None)
            /\ marker.kind = "absent" =>
                 /\ last'.result = ReturnCode(ENOENT)
                 /\ UNCHANGED <<container, venvs, marker>>
      ]_vars

\* deactivate_runtime() succeeded where a runtime was active.
DeactivatedActive ==
    /\ last.op = "deactivate_runtime"
    /\ last.result.kind = "return"
    /\ get_active_runtime(last.pre, container, venvs).kind = "return"
    /\ get_active_runtime(last.pre, container, venvs).runtime # None
    /\ marker.kind = "absent"

\* C6: when the remove command is given a spec that resolves to the active
\* runtime and returns 0, get_active_runtime() returns None afterwards, the
\* marker is gone and the runtime is no longer enumerated.
RemoveActiveRuntime ==
    [][(/\ last.op = "none"
        /\ last'.op = "remove"
        /\ last'.result = ReturnCode(0)
        /\ get_active_runtime(marker, container, venvs) = Return(last'.runtime))
       => /\ get_active_runtime(marker', container', venvs') = Return(None)
          /\ marker'.kind = "absent"
          /\ last'.runtime \notin Range(iter_runtimes(container', venvs'))
          /\ name(last'.runtime) \notin names(venvs')
      ]_vars

\* The remove command returned 0 for a runtime and removed the marker with
\* it: the runtime was the active one.
RemovedActive ==
    /\ last.op = "remove"
    /\ last.result = ReturnCode(0)
    /\ last.runtime # None
    /\ last.pre.kind \in {"file", "symlink"}
    /\ marker.kind = "absent"
    /\ name(last.runtime) \notin names(venvs)

\* C7: get_active_runtime() never fails, whatever the marker is.
GetActiveNeverFails ==
    last.op = "get_active_runtime" => last.result.kind = "return"

\* C10: after activate_runtime(runtime) succeeds the marker holds exactly
\* ".venvs/<runtime name>" terminated by one line feed.
MarkerNewlineTerminated ==
    (last.op = "activate_runtime" /\ last.result.kind = "return")
    => marker.content = marker_text(last.runtime) \o <<"\n">>

\* The resolved target of a link is a descendant of the runtime container.
InContainer(path) == Len(path) > 1 /\ path[1] = _VENV_CONTAINER_NAME

\* C11: when the marker is a symbolic link, get_active_runtime() returns the
\* runtime at the resolved target if and only if the target is a directory
\* below the container, and None for every other link (dangling, to a
\* regular file, to a directory outside).
SymlinkMarkerContract ==
    (last.op = "get_active_runtime" /\ marker.kind = "symlink") =>
      last.result = IF marker.tkind = "dir" /\ InContainer(marker.tpath)
                    THEN Return(Runtime(marker.tpath))
                    ELSE Return(None)

\* C12: activate_runtime fails with a filesystem error, leaving the entry
\* and what it points to unchanged, whenever the marker exists and is not a
\* regular file (a directory, or a link to a file, a directory or nothing).
ActivateRefusesNonFile ==
    (last.op = "activate_runtime" /\ last.pre.kind \in {"dir", "symlink"}) =>
      /\ last.result.kind = "OSError"
      /\ marker = last.pre

(***************************************************************************)
(* Properties of create_runtime and of the venv commands, under            *)
(* SpecCreate.                                                             *)
(***************************************************************************)
\* The interpreter was found and its quintuplet query gave nothing.
EmptyQuintuplet(op) == op.input.answer = "found" /\ op.resolved = <<>>

\* C13: when the quintuplet query of a found interpreter gives nothing,
\* create_runtime raises InterpreterNotFound and leaves the container, its
\* entries and the marker as they were, and the find_runtime of remove and
\* activate, given the path of such an interpreter, selects no runtime.
EmptyQuintupletIsInterpreterNotFound ==
    [][/\ (last'.op = "create_runtime" /\ EmptyQuintuplet(last')) =>
            /\ last'.result = InterpreterNotFound
            /\ UNCHANGED <<container, venvs, marker>>
       /\ (/\ last'.op \in {"remove", "activate"}
           /\ _looks_like_path(last'.alias)
           /\ last'.resolved = <<>>) =>
            last'.runtime = None]_vars

\* The error kinds the commands are to turn into exit codes.
ErrorKinds ==
    {"InterpreterNotFound", "PyUnavailable", "RuntimeExists", "NoRuntimeMatch",
     "MultipleRuntimeMatches", "EnvironmentCreationError", "VirtualenvNotFound"}

\* C14: add, remove and activate end with an exit code, never with one of
\* the error kinds; add for a quintuplet whose directory exists ends with an
\* exit code and leaves the container, its entries and the marker as they
\* were.
NoErrorKindEscapes ==
    [][last'.op \in {"add", "remove", "activate"} =>
         /\ last'.result.kind \notin ErrorKinds
         /\ (/\ last'.op = "add"
             /\ last'.input.answer = "found"
             /\ exists(joinpath(_runtime_container, last'.resolved), container, venvs)) =>
              /\ last'.result.kind = "return"
              /\ UNCHANGED <<container, venvs, marker>>]_vars


(***************************************************************************)
(* Properties of locating the project, under SpecDiscover.                 *)
(***************************************************************************)
\* The levels with a .venvs directory, and those with a pyproject.toml file.
WithVenvs == {l \in 1..Len(tree) : tree[l].venvs = "dir"}

WithManifest == {l \in 1..Len(tree) : tree[l].pyproject = "file"}

Discovered == last.op = "dispatch" /\ last.input.project = NoProjectOption

\* C16: discovery from the working directory hands over the nearest level
\* with a .venvs directory if there is one at any level, else the nearest
\* level with a pyproject.toml file, else ends with project-not-found.
ContainerBeforeManifest ==
    Discovered =>
      last.result = IF WithVenvs # {} THEN Func(Project(Dir(Min(WithVenvs))))
                    ELSE IF WithManifest # {} THEN Func(Project(Dir(Min(WithManifest))))
                    ELSE ReturnCode(project_not_found)

\* A manifest nearer than the nearest container, and the container won.
OuterContainerWon ==
    /\ Discovered
    /\ WithVenvs # {} /\ WithManifest # {}
    /\ Min(WithManifest) < Min(WithVenvs)
    /\ last.result = Func(Project(Dir(Min(WithVenvs))))

\* How many steps up from the directory discover starts in the level is:
\* the start itself when it is a directory of the tree, its parent when it
\* is a file.
StepsUp(l) ==
    LET start == last.input.start
    IN  IF start.name = "" \/ is_file(tree, start) THEN l - start.level
        ELSE l - start.level + 1

\* The name discover looks for.
Sought ==
    IF is_file(tree, last.input.start) THEN last.input.start.name ELSE "pyproject.toml"

\* The levels discover may return with the bound it was given.
WithinUp ==
    {l \in 1..Len(tree) : /\ StepsUp(l) \in 0..last.input.up
                          /\ is_file(tree, PathAt(l, Sought))}

\* C17: discover with up=N returns the nearest level, among the start and
\* its N nearest ancestors, that has the marker, and raises ProjectNotFound
\* when none of these has it, whatever the levels further up have.
DiscoverWithinUp ==
    (last.op = "discover" /\ last.input.up # UpNone) =>
      IF WithinUp # {}
      THEN last.result = Project(Dir(Min(WithinUp)))
      ELSE last.result.kind = "ProjectNotFound"

\* up=0, the marker in an ancestor only, and ProjectNotFound.
AncestorMarkerNotFound ==
    /\ last.op = "discover"
    /\ last.input.up = 0
    /\ last.input.start = Dir(1)
    /\ tree[1].pyproject # "file"
    /\ tree[2].pyproject = "file"
    /\ last.result.kind = "ProjectNotFound"

\* The directory has a recognized marker.
HasMarker(path) ==
    /\ path.name = ""
    /\ path.level \in WithVenvs \cup WithManifest

Marked(path) ==
    IF \/ path.name = ".venvs" /\ is_dir(tree, path)
       \/ path.name = "pyproject.toml" /\ is_file(tree, path)
    THEN parent(path)
    ELSE path

DistinctExitCodes ==
    \A k1 \in DOMAIN codes, k2 \in DOMAIN codes : k1 # k2 => codes[k1] # codes[k2]

Started == last.op = "run" /\ last.result.kind = "launched"

\* The PATH of the process, if it has one that is not empty.
OriginalPath ==
    IF "PATH" \in DOMAIN environ /\ environ["PATH"] # <<>> THEN <<environ["PATH"]>> ELSE <<>>

\* C19: the environment built for the command has the variables of the
\* process with their values, except that VIRTUAL_ENV is the root of the
\* runtime and PATH lists the runtime's bin and Scripts, those that are
\* directories, and then the PATH of the process.
LaunchEnvironment ==
    Started =>
      LET built == last.result.built
          tool == last.input.tool
      IN  /\ DOMAIN built = DOMAIN environ \cup {"PATH", "VIRTUAL_ENV"}
          /\ \A k \in DOMAIN built \ {"PATH", "VIRTUAL_ENV"} : built[k] = environ[k]
          /\ built["VIRTUAL_ENV"] = fspath(tool.os_name, last.runtime.root)
          /\ built["PATH"] =
               join(bin_dirs(tool.os_name, last.runtime, tool.has_bin, tool.has_scripts)
                    \o OriginalPath, pathsep(tool.os_name))

\* A launch from a runtime with both directories and a process with a PATH
\* and another VIRTUAL_ENV.
LaunchedWithBoth ==
    /\ Started
    /\ last.input.tool.has_bin /\ last.input.tool.has_scripts
    /\ OriginalPath # <<>>
    /\ last.input.tool.os_name = "posix"
    /\ last.runtime = Runtime(joinpath(_runtime_container, Name39))

(***************************************************************************)
(* Properties of _cmdify, under SpecCmdify.                                *)
(***************************************************************************)
\* The token with its double quotes escaped, in double quotes or not.
Escaped(token, quoted) ==
    IF quoted THEN <<"\"">> \o escape(token) \o <<"\"">> ELSE escape(token)

\* C20: the command line is the command token and the arguments, separated
\* by spaces, each with every double quote prefixed with a backslash and
\* the backslashes before it doubled, in double quotes or not.
EveryQuoteEscaped ==
    last.op = "_cmdify" =>
      LET cmd == last.input.cmd
          args == last.input.args
      IN  \E q \in BOOLEAN, quoted \in [1..Len(args) -> BOOLEAN] :
            last.input.line =
              Escaped(cmd, q) \o <<" ">>
              \o join([i \in 1..Len(args) |-> Escaped(args[i], quoted[i])], " ")

\* The token has a character of the set.
Has(token, chars) == \E i \in 1..Len(token) : token[i] \in chars

\* The token as it is to appear: in double quotes exactly when it has a
\* foul character, verbatim otherwise.
Wrapped(token, foul) ==
    IF Has(token, foul) THEN Escaped(token, TRUE) ELSE token

IsNumber(t) == t # <<>> /\ \A i \in 1..Len(t) : t[i] \in Digits

\* The text is MAJOR or MAJOR.MINOR.
IsMajorMinor(t) ==
    \/ IsNumber(t)
    \/ \E i \in 1..Len(t) :
         /\ t[i] = "."
         /\ IsNumber(SubSeq(t, 1, i - 1))
         /\ IsNumber(SubSeq(t, i + 1, Len(t)))

\* The text is MAJOR or MAJOR.MINOR, then -32, -64 or nothing.
IsVersionForm(t) ==
    \/ IsMajorMinor(t)
    \/ /\ Len(t) > 3
       /\ SubSeq(t, Len(t) - 2, Len(t)) \in {<<"-", "3", "2">>, <<"-", "6", "4">>}
       /\ IsMajorMinor(SubSeq(t, 1, Len(t) - 3))

\* C22: resolve_python takes the spec for a version of the launcher, and
\* asks the launcher, exactly when the whole spec is MAJOR or MAJOR.MINOR
\* in decimal digits, then -32, -64 or nothing.
VersionExactlyWhenVersionForm ==
    last.op = "resolve_python" =>
      /\ last.input.version <=> IsVersionForm(last.alias)
      /\ (last.input.answer = "unavailable" /\ ~IsVersionForm(last.alias)) =>
           last.input.resolved.kind # "PyUnavailable"

(***************************************************************************)
(* Properties of invocations at the same time, under SpecRace.             *)
(***************************************************************************)
\* C23: when both activations are over, the marker holds the text of one
\* of them, whole and alone, and get_active_runtime returns its runtime.
LastWriterWins ==
    (\A p \in Writers : procs[p].pc = "done") =>
      \E p \in Writers :
        /\ marker.content = written_text(procs[p].runtime)
        /\ get_active_runtime(marker, container, venvs) = Return(procs[p].runtime)

\* C26: with one activation under way and no other, get_active_runtime
\* returns none, the runtime that was active before or the runtime being
\* activated, and raises nothing.
ReaderNeverFails ==
    (procs[Reader].pc = "done" /\ procs["w2"].pc = "start") =>
      procs[Reader].result \in
        {Return(None),
         get_active_runtime(IF procs["w1"].pc = "start" THEN marker ELSE procs["w1"].before,
                            container, venvs),
         Return(procs["w1"].runtime)}

(***************************************************************************)
(* Further properties of the marker protocol, under Spec.                  *)
(***************************************************************************)
\* C24: a runtime that get_active_runtime() returns is one of those that
\* iter_runtimes() yields: a directory directly in the container.
ActiveIsEnumerated ==
    (/\ last.op = "get_active_runtime"
     /\ last.result.kind = "return"
     /\ last.result.runtime # None) =>
      last.result.runtime \in Range(iter_runtimes(container, venvs))

(***************************************************************************)
(* The venv commands in sequence, under SpecCreate.                        *)
(***************************************************************************)
\* The command of the step activated last'.runtime: venvs.activate with a
\* spec, or venvs.add whose activation was not refused, returning 0.
Activates ==
    /\ last'.result = ReturnCode(0)
    /\ \/ last'.op = "activate" /\ last'.alias # <<>>
       \/ last'.op = "add" /\ last'.input.activated

\* The command of the step deactivated the runtime that was active, or
\* removed it.
Retires ==
    /\ last'.result = ReturnCode(0)
    /\ \/ last'.op = "activate" /\ last'.alias = <<>>
       \/ /\ last'.op = "remove"
          /\ get_active_runtime(marker, container, venvs) = Return(last'.runtime)

\* C25: each of the commands add, activate and remove leaves
\* get_active_runtime() returning none or the runtime of the most recent
\* successful activation: the runtime the command activated if it activated
\* one, none if it deactivated or removed the active runtime, and otherwise
\* none or what it returned before the command.
ActiveFollowsCommands ==
    [][(last.op = "none" /\ last'.op \in {"add", "activate", "remove"}) =>
         LET before == get_active_runtime(marker, container, venvs)
             after == get_active_runtime(marker', container', venvs')
         IN  /\ after.kind = "return"
             /\ IF Activates THEN after.runtime \in {None, last'.runtime}
                ELSE IF Retires THEN after.runtime = None
                ELSE after.runtime \in {None, before.runtime}]_vars

(***************************************************************************)
(* Aliases without a part to compare, under SpecFind.                      *)
(***************************************************************************)
\* The parts of the alias that take part in the comparison with the name
\* n, by position: implementation, version, system, platform, hash.
PartsCompared(alias, n) ==
    LET m == from_alias(alias, FALSE, <<>>).matcher
        p == split(n, "-")
    IN  {i \in 1..Len(m._parts) : m._parts[i] # <<>> /\ m._parts[i] = lower(p[i])}
        \cup {i \in {5} : m._hash # <<>> /\ m._hash = lower(p[5])}

\* C27: find_runtime returns a runtime only when some part of the alias that
\* is not empty equals the part of the runtime's name in its position; an
\* alias whose parts are all empty selects nothing.
NonEmptyPartSelects ==
    (/\ last.op = "find_runtime"
     /\ last.result.kind = "return") =>
      /\ FivePart(name(last.result.runtime))
      /\ PartsCompared(last.resolved, name(last.result.runtime)) # {}

(***************************************************************************)
(* The environment of the child, under SpecLaunch.                         *)
(***************************************************************************)
\* C28: whichever way the child is started (execlpe, call of the resolved
\* executable, or the shell), its environment has VIRTUAL_ENV set to the
\* root of the runtime and a PATH that begins with the runtime's executable
\* directories.
ChildGetsDerivedEnvironment ==
    Started =>
      LET env == last.result.env
          tool == last.input.tool
      IN  /\ "VIRTUAL_ENV" \in DOMAIN env
          /\ env["VIRTUAL_ENV"] = fspath(tool.os_name, last.runtime.root)
          /\ "PATH" \in DOMAIN env
          /\ env["PATH"] =
               join(bin_dirs(tool.os_name, last.runtime, tool.has_bin, tool.has_scripts)
                    \o OriginalPath, pathsep(tool.os_name))

(***************************************************************************)
(* What remove_runtime touches, under Spec.                                *)
(***************************************************************************)
\* C29: remove_runtime(runtime) raises RuntimeActive when
\* get_active_runtime() returns the runtime, and then the container and the
\* marker are as before; when get_active_runtime() returns another runtime
\* or none, nothing but the entry of the runtime goes (by unlink when it is
\* a link, by rmtree otherwise), it is gone when the call returns, and the
\* marker is as before.
RemoveRuntimeTouchesOnlyInactive ==
    [][(last.op = "none" /\ last'.op = "remove_runtime") =>
         LET active == get_active_runtime(marker, container, venvs)
             r == last'.runtime
         IN  /\ active = Return(r) =>
                  /\ last'.result = RuntimeActive(r)
                  /\ last'.input.call = "none"
                  /\ <<container, venvs, marker>>' = <<container, venvs, marker>>
             /\ (active.kind = "return" /\ active.runtime # r) =>
                  /\ last'.result.kind # "RuntimeActive"
                  /\ <<container, marker>>' = <<container, marker>>
                  /\ venvs' = IF last'.result = Return(None)
                              THEN without(venvs, name(r)) ELSE venvs
                  /\ last'.input.call =
                       IF entry(venvs, name(r)).kind = "symlink" THEN "unlink" ELSE "rmtree"]_vars

\* A runtime has been removed while another one was active, and that one is
\* still active.
RemovedBesideActive ==
    /\ last.op = "remove_runtime"
    /\ last.result = Return(None)
    /\ name(last.runtime) \notin names(venvs)
    /\ marker = last.pre
    /\ get_active_runtime(marker, container, venvs).kind = "return"
    /\ get_active_runtime(marker, container, venvs).runtime \in Range(iter_runtimes(container, venvs))

====
